---- MODULE Spec2Model ----
(***************************************************************************)
(* A model of nfldb/db.py: the Tx transaction scope, schema_version and    *)
(* the _migrate runner, and the _upsert / _big_insert statement builders,  *)
(* over a small model of one PostgreSQL database reached through one       *)
(* psycopg2 connection.                                                    *)
(*                                                                         *)
(* The database is a record                                                *)
(*   tables : the tables present in the public schema                      *)
(*   meta   : the rows of the meta table, as <<name, value>> pairs         *)
(*   types  : the types present in the public schema                       *)
(*   rows   : the rows of the data tables game and player                  *)
(*   log    : the ids of the write statements whose effect is present      *)
(* `committed` is the durable state, `working` the state the connection's  *)
(* open transaction sees (equal to `committed` when the connection is      *)
(* idle).                                                                  *)
(***************************************************************************)
EXTENDS Integers, Sequences, FiniteSets, TLC

VARIABLES
    committed,  \* durable database state
    working,    \* database state seen inside the connection's transaction
    status,     \* connection.get_transaction_status(): IDLE, INTRANS, INERROR
    txStart,    \* start time of the open transaction: the value of NOW()
    now,        \* wall clock of the database server
    scopes,     \* stack of entered Tx objects, innermost last
    cursors,    \* number of open cursors of the connection
    race,       \* two connections running _upsert on one table
    hist,       \* the _upsert and _big_insert calls made in turn so far
    exc,        \* the exception in flight in the call stack, or "None"
    nstmt,      \* number of write statements issued so far by scope bodies
    unit,       \* history of the current top-level unit of work
    mig,        \* the _migrate call in progress
    last        \* the operation performed by the last step, with its inputs

vars == <<committed, working, status, txStart, now, scopes, cursors, race,
          hist, exc, nstmt, unit, mig, last>>

----------------------------------------------------------------------------
(* Bounds *)

MaxDepth == 3
MaxScopes == 3
MaxStmts == 3
MaxNow == 2
MaxTarget == 3
MigDepth == 1
MigStmts == 1
MaxRows == 2
MaxCols == 2
RaceRows == 1
MaxCalls == 2
TurnRows == 1

----------------------------------------------------------------------------
(* Program constants *)

api_version == 2

\* the migration functions defined in the module's globals
MigrationFunctions == {1, 2}

StampedTables == {"game", "drive", "play"}

NULL == "NULL"

\* tables created by _migrate_1 and by _migrate_2
Step1Tables == {"meta"}
Step2Tables == {"team", "player", "game", "drive", "play", "play_player"}

\* the types created by _migrate_2 that connect binds casting functions to,
\* in the order connect binds them
BoundTypes == <<"game_phase", "season_phase", "game_day", "playerpos",
                "game_time", "pos_period", "field_pos">>

Step2Types == {BoundTypes[i] : i \in DOMAIN BoundTypes}

\* the data tables whose rows are modelled, and the columns kept of each
DataTables == {"game", "player"}

Columns(table) ==
    IF table = "game"
    THEN {"gsis_id", "gamekey", "time_inserted", "time_updated"}
    ELSE {"player_id", "full_name"}

PrimaryKey(table) == IF table = "game" THEN {"gsis_id"} ELSE {"player_id"}

NotNull(table) ==
    IF table = "game"
    THEN {"gsis_id", "time_inserted", "time_updated"}
    ELSE {"player_id"}

----------------------------------------------------------------------------
(* The database *)

EmptyRows == [game |-> {}, player |-> {}]

EmptyDb == [tables |-> {}, types |-> {}, meta |-> {}, rows |-> EmptyRows,
            log |-> {}]

\* the session: what a statement, a commit or a rollback reads and changes
Sess == [committed |-> committed, working |-> working,
         status |-> status, txStart |-> txStart]

SetSess(s) ==
    /\ committed' = s.committed
    /\ working' = s.working
    /\ status' = s.status
    /\ txStart' = s.txStart

----------------------------------------------------------------------------
(* The psycopg2 connection, as db.py uses it *)

\* connection.commit(): COMMIT makes the transaction's work durable; in a
\* failed transaction the server answers COMMIT with a rollback; on an idle
\* connection nothing is sent.
commit(s) ==
    CASE s.status = "INTRANS" ->
             [s EXCEPT !.committed = s.working, !.status = "IDLE"]
      [] s.status = "INERROR" ->
             [s EXCEPT !.working = s.committed, !.status = "IDLE"]
      [] OTHER -> s

\* connection.rollback()
rollback(s) == [s EXCEPT !.working = s.committed, !.status = "IDLE"]

\* psycopg2 opens the transaction with the first statement executed on an
\* idle connection; NOW() is the start time of that transaction.
Begin(s, t) ==
    IF s.status = "IDLE"
    THEN [s EXCEPT !.status = "INTRANS", !.txStart = t]
    ELSE s

\* The effect of a write statement issued by a scope body: its id enters the
\* log, or the backend rejects it.
RunWrite(db, q) ==
    IF q.ok
    THEN [db |-> [db EXCEPT !.log = @ \cup {q.id}], err |-> "None",
          rowcount |-> 1, rows |-> {}]
    ELSE [db |-> db, err |-> "IntegrityError", rowcount |-> -1, rows |-> {}]

\* what psycopg2 and the server make of the integer v bound to the varchar
\* column meta.value: its decimal digits
Digit(d) ==
    CASE d = 0 -> "0" [] d = 1 -> "1" [] d = 2 -> "2" [] d = 3 -> "3"
      [] d = 4 -> "4" [] d = 5 -> "5" [] d = 6 -> "6" [] d = 7 -> "7"
      [] d = 8 -> "8" [] d = 9 -> "9"

RECURSIVE str(_)
str(n) == IF n < 10 THEN Digit(n) ELSE str(n \div 10) \o Digit(n % 10)

\* int(text): the number the decimal digits denote
int(text) == CHOOSE n \in 0..99 : str(n) = text

\* SELECT value FROM meta WHERE name = 'version'
RunSelectVersion(db) ==
    IF "meta" \notin db.tables
    THEN [db |-> db, err |-> "ProgrammingError", rowcount |-> -1, rows |-> {}]
    ELSE LET found == {m[2] : m \in {x \in db.meta : x[1] = "version"}}
         IN  [db |-> db, err |-> "None", rowcount |-> Cardinality(found),
              rows |-> found]

\* CREATE TABLE meta (name varchar PRIMARY KEY, value varchar NOT NULL)
RunCreateMeta(db) ==
    IF "meta" \in db.tables
    THEN [db |-> db, err |-> "ProgrammingError", rowcount |-> -1, rows |-> {}]
    ELSE [db |-> [db EXCEPT !.tables = @ \cup Step1Tables, !.meta = {}],
          err |-> "None", rowcount |-> -1, rows |-> {}]

\* INSERT INTO meta (name, value) VALUES ('version', '1')
RunInsertVersion(db) ==
    IF "meta" \notin db.tables
    THEN [db |-> db, err |-> "ProgrammingError", rowcount |-> -1, rows |-> {}]
    ELSE IF \E m \in db.meta : m[1] = "version"
    THEN [db |-> db, err |-> "IntegrityError", rowcount |-> -1, rows |-> {}]
    ELSE [db |-> [db EXCEPT !.meta = @ \cup {<<"version", "1">>}],
          err |-> "None", rowcount |-> 1, rows |-> {}]

\* UPDATE meta SET value = %s WHERE name = 'version'
RunUpdateVersion(db, v) ==
    IF "meta" \notin db.tables
    THEN [db |-> db, err |-> "ProgrammingError", rowcount |-> -1, rows |-> {}]
    ELSE [db |-> [db EXCEPT !.meta =
                    {IF m[1] = "version" THEN <<"version", str(v)>> ELSE m :
                        m \in db.meta}],
          err |-> "None",
          rowcount |-> Cardinality({m \in db.meta : m[1] = "version"}),
          rows |-> {}]

\* the CREATE TYPE statements of _migrate_2, which fail on a type that
\* exists
RunCreateTypes(db) ==
    IF db.types \cap Step2Types # {}
    THEN [db |-> db, err |-> "ProgrammingError", rowcount |-> -1, rows |-> {}]
    ELSE [db |-> [db EXCEPT !.types = @ \cup Step2Types],
          err |-> "None", rowcount |-> -1, rows |-> {}]

\* the CREATE TABLE statements of _migrate_2, which fail on a table that
\* exists
RunCreateSchema(db) ==
    IF db.tables \cap Step2Tables # {}
    THEN [db |-> db, err |-> "ProgrammingError", rowcount |-> -1, rows |-> {}]
    ELSE [db |-> [db EXCEPT !.tables = @ \cup Step2Tables,
                            !.rows = EmptyRows],
          err |-> "None", rowcount |-> -1, rows |-> {}]

\* column values of the data tables
Values == {"a", "b"}

\* the columns a caller passes values for
InputColumns(table) == Columns(table) \ {"time_inserted", "time_updated"}

Failed(db, err) == [db |-> db, err |-> err, rowcount |-> -1, rows |-> {}]

\* the elements of a sequence
Elems(seq) == {seq[i] : i \in DOMAIN seq}

\* number of %s placeholders among the first n expressions of exprs
Placeholders(exprs, n) ==
    Cardinality({i \in 1..n : exprs[i] = "%s"})

\* the expressions with the i-th %s replaced by params[offset + i]
Bind(exprs, params, offset) ==
    [i \in DOMAIN exprs |->
        IF exprs[i] = "%s"
        THEN params[offset + Placeholders(exprs, i)]
        ELSE exprs[i]]

\* the value of a bound expression: NOW() is the transaction's start time
Eval(expr, t) == IF expr = "NOW()" THEN t ELSE expr

\* WHERE c1 = v1 AND c2 = v2 ...
Matches(r, cols, vals) == \A i \in DOMAIN cols : r[cols[i]] = vals[i]

\* SET c1 = e1, c2 = e2 ... applied to a row
Assigned(r, cols, exprs, t) ==
    [c \in DOMAIN r |->
        IF c \in Elems(cols)
        THEN Eval(exprs[CHOOSE i \in DOMAIN cols : cols[i] = c], t)
        ELSE r[c]]

PkOf(table, r) == [c \in PrimaryKey(table) |-> r[c]]

\* a column list names columns of the table, each once
ColumnsOk(table, cols) ==
    /\ Elems(cols) \subseteq Columns(table)
    /\ \A i, j \in DOMAIN cols : cols[i] = cols[j] => i = j

\* the row an UPDATE leaves in place of r
Updated(r, set_cols, set_exprs, where_cols, where_vals, t) ==
    IF Matches(r, where_cols, where_vals)
    THEN Assigned(r, set_cols, set_exprs, t)
    ELSE r

\* UPDATE table SET ... WHERE ...: all matching rows are assigned; the
\* primary key stays unique or the statement fails
SqlUpdate(rows, table, set_cols, set_exprs, where_cols, where_vals, t) ==
    IF ~ColumnsOk(table, set_cols) \/ ~(Elems(where_cols) \subseteq Columns(table))
    THEN [rows |-> rows, err |-> "ProgrammingError"]
    ELSE IF \E r1, r2 \in rows :
               /\ r1 # r2
               /\ PkOf(table, Updated(r1, set_cols, set_exprs, where_cols,
                                      where_vals, t))
                  = PkOf(table, Updated(r2, set_cols, set_exprs, where_cols,
                                        where_vals, t))
    THEN [rows |-> rows, err |-> "IntegrityError"]
    ELSE [rows |-> {Updated(r, set_cols, set_exprs, where_cols, where_vals,
                            t) : r \in rows},
          err |-> "None"]

\* the row INSERT builds from a column list and one list of values: the
\* columns not listed are NULL
NewRow(table, cols, exprs, t) ==
    [c \in Columns(table) |->
        IF c \in Elems(cols)
        THEN Eval(exprs[CHOOSE i \in DOMAIN cols : cols[i] = c], t)
        ELSE NULL]

\* INSERT that passes over the rows whose primary key is taken, as with
\* ON CONFLICT DO NOTHING
SqlInsert_SkipsPresent(rows, table, cols, lists, t) ==
    IF \/ ~ColumnsOk(table, cols)
       \/ \E j \in DOMAIN lists : Len(lists[j]) # Len(cols)
    THEN [rows |-> rows, err |-> "ProgrammingError"]
    ELSE IF Len(lists) = 0
    THEN [rows |-> rows, err |-> "None"]
    ELSE IF ~(NotNull(table) \subseteq Elems(cols))
    THEN [rows |-> rows, err |-> "IntegrityError"]
    ELSE [rows |-> rows \cup
                   {NewRow(table, cols, lists[j], t) :
                       j \in {k \in DOMAIN lists :
                                 /\ \A r \in rows :
                                       PkOf(table, NewRow(table, cols,
                                                          lists[k], t))
                                       # PkOf(table, r)
                                 /\ \A i \in 1..(k - 1) :
                                       PkOf(table, NewRow(table, cols,
                                                          lists[i], t))
                                       # PkOf(table, NewRow(table, cols,
                                                            lists[k], t))}},
          err |-> "None"]

\* INSERT INTO table (cols) of the rows given by the value lists: every list
\* is as long as the column list, NOT NULL columns are listed, and the
\* primary key stays unique, or the statement fails and inserts nothing
SqlInsert(rows, table, cols, lists, t) ==
    IF \/ ~ColumnsOk(table, cols)
       \/ \E j \in DOMAIN lists : Len(lists[j]) # Len(cols)
    THEN [rows |-> rows, err |-> "ProgrammingError"]
    ELSE IF Len(lists) = 0
    THEN [rows |-> rows, err |-> "None"]
    ELSE IF ~(NotNull(table) \subseteq Elems(cols))
    THEN [rows |-> rows, err |-> "IntegrityError"]
    ELSE IF \/ \E i, j \in DOMAIN lists :
                  /\ i # j
                  /\ PkOf(table, NewRow(table, cols, lists[i], t))
                     = PkOf(table, NewRow(table, cols, lists[j], t))
            \/ \E j \in DOMAIN lists : \E r \in rows :
                  PkOf(table, NewRow(table, cols, lists[j], t))
                  = PkOf(table, r)
    THEN [rows |-> rows, err |-> "IntegrityError"]
    ELSE [rows |-> rows \cup {NewRow(table, cols, lists[j], t) :
                                 j \in DOMAIN lists},
          err |-> "None"]

\* a statement on a data table has run with outcome r
TableDone(db, table, r) ==
    IF r.err # "None"
    THEN Failed(db, r.err)
    ELSE [db |-> [db EXCEPT !.rows[table] = r.rows], err |-> "None",
          rowcount |-> Cardinality(r.rows) - Cardinality(db.rows[table]),
          rows |-> {}]

\* number of %s placeholders of a list of expressions
NParams(exprs) == Placeholders(exprs, Len(exprs))

\* the INSERT of the upsert without its NOT EXISTS guard
UpsertInsert_Unguarded(db, q, u, t) ==
    IF u.err # "None"
    THEN u
    ELSE SqlInsert(u.rows, q.table, q.insert_fields,
                   <<Bind(q.insert_places, q.params,
                          NParams(q.update_places) + NParams(q.pk_places))>>,
                   t)

\* the INSERT of the upsert on the rows u the UPDATE left:
\* INSERT ... SELECT places WHERE NOT EXISTS (SELECT 1 FROM table WHERE pk)
UpsertInsert(db, q, u, t) ==
    IF u.err # "None"
    THEN u
    ELSE SqlInsert(u.rows, q.table, q.insert_fields,
                   IF \E r \in u.rows :
                          Matches(r, q.pk_cols,
                                  Bind(q.pk_places, q.params,
                                       NParams(q.update_places)
                                       + NParams(q.pk_places)
                                       + NParams(q.insert_places)))
                   THEN <<>>
                   ELSE <<Bind(q.insert_places, q.params,
                               NParams(q.update_places)
                               + NParams(q.pk_places))>>,
                   t)

\* the UPDATE of the upsert on the rows it sees:
\* UPDATE table SET update_set WHERE pk_cond
UpsertUpdate(rows, q, t) ==
    SqlUpdate(rows, q.table, q.update_cols,
              Bind(q.update_places, q.params, 0),
              q.pk_cols,
              Bind(q.pk_places, q.params, NParams(q.update_places)),
              t)

\* UPDATE %s SET %s WHERE %s; INSERT INTO %s (%s) SELECT %s WHERE NOT EXISTS
\* (SELECT 1 FROM %s WHERE %s), its placeholders bound in order
RunUpsert(db, q, t) ==
    IF q.table \notin db.tables
    THEN Failed(db, "ProgrammingError")
    ELSE TableDone(db, q.table,
             UpsertInsert(db, q, UpsertUpdate(db.rows[q.table], q, t), t))

\* INSERT INTO %s (%s) VALUES %s
RunBigInsert(db, q, t) ==
    IF q.table \notin db.tables
    THEN Failed(db, "ProgrammingError")
    ELSE TableDone(db, q.table,
             SqlInsert(db.rows[q.table], q.table, q.insert_fields, q.values,
                       t))

\* SET timezone = %s: a session setting; a name the server does not know is
\* rejected
RunSetTimezone(db, q) ==
    IF q.ok
    THEN [db |-> db, err |-> "None", rowcount |-> -1, rows |-> {}]
    ELSE Failed(db, "DataError")

\* SELECT COUNT(*) AS count FROM information_schema.tables WHERE ...
\* table_schema = 'public'
RunCountTables(db) ==
    [db |-> db, err |-> "None", rowcount |-> 1,
     rows |-> {Cardinality(db.tables)}]

\* SELECT NULL::sql_type_name
RunSelectNull(db, q) ==
    IF q.type \in db.types
    THEN [db |-> db, err |-> "None", rowcount |-> 1, rows |-> {NULL}]
    ELSE Failed(db, "ProgrammingError")

\* the statements of db.py, by kind
Run(db, q, t) ==
    CASE q.kind = "write" -> RunWrite(db, q)
      [] q.kind = "select_version" -> RunSelectVersion(db)
      [] q.kind = "create_meta" -> RunCreateMeta(db)
      [] q.kind = "insert_version" -> RunInsertVersion(db)
      [] q.kind = "update_version" -> RunUpdateVersion(db, q.v)
      [] q.kind = "create_types" -> RunCreateTypes(db)
      [] q.kind = "create_schema" -> RunCreateSchema(db)
      [] q.kind = "upsert" -> RunUpsert(db, q, t)
      [] q.kind = "big_insert" -> RunBigInsert(db, q, t)
      [] q.kind = "set_timezone" -> RunSetTimezone(db, q)
      [] q.kind = "count_tables" -> RunCountTables(db)
      [] q.kind = "select_null" -> RunSelectNull(db, q)
      [] OTHER -> [db |-> db, err |-> "ProgrammingError", rowcount |-> -1,
                   rows |-> {}]

\* the statement q has run on the transaction b with outcome r: a failing
\* statement leaves the transaction failed and changes nothing
ExecuteDone(b, r) ==
    IF r.err = "None"
    THEN [s |-> [b EXCEPT !.working = r.db], err |-> "None",
          rowcount |-> r.rowcount, rows |-> r.rows]
    ELSE [s |-> [b EXCEPT !.status = "INERROR"], err |-> r.err,
          rowcount |-> -1, rows |-> {}]

ExecuteIn(b, q) == ExecuteDone(b, Run(b.working, q, b.txStart))

\* cursor.execute(q): a statement in a failed transaction is refused
execute(s, q, t) ==
    IF s.status = "INERROR"
    THEN [s |-> s, err |-> "InternalError", rowcount |-> -1, rows |-> {}]
    ELSE ExecuteIn(Begin(s, t), q)

\* execute on the cursor of the scope tx: a closed cursor raises at once
CursorExecute(tx, s, q, t) ==
    IF tx.cursor # "open"
    THEN [s |-> s, err |-> "InterfaceError", rowcount |-> -1, rows |-> {}]
    ELSE execute(s, q, t)

----------------------------------------------------------------------------
(* class Tx *)

\* Tx.__init__: nested iff the connection is in a transaction right now
TxInit(s) ==
    [nested |-> (s.status = "INTRANS"), cursor |-> "none",
     initStatus |-> s.status]

\* Tx.__enter__: a new cursor
TxEnter(tx) == [tx EXCEPT !.cursor = "open"]

\* if not self.__cursor.closed: self.__cursor.close()
Closing(tx) == IF tx.cursor = "open" THEN <<"close">> ELSE <<>>

\* TxExit leaving the cursor open when the body raised
TxExit_KeepsCursorOnError(tx, s, typ) ==
    LET closed == [tx EXCEPT !.cursor = "closed"]
    IN  IF typ # "None"
        THEN IF ~tx.nested
             THEN [s |-> rollback(s), tx |-> tx, calls |-> <<"rollback">>,
                   raises |-> TRUE]
             ELSE [s |-> s, tx |-> tx, calls |-> <<>>, raises |-> TRUE]
        ELSE IF ~tx.nested
             THEN [s |-> commit(s), tx |-> closed,
                   calls |-> Closing(tx) \o <<"commit">>, raises |-> FALSE]
             ELSE [s |-> s, tx |-> closed, calls |-> Closing(tx),
                   raises |-> FALSE]

\* TxExit answering True when the body raised
TxExit_Suppresses(tx, s, typ) ==
    LET closed == [tx EXCEPT !.cursor = "closed"]
    IN  IF typ # "None"
        THEN IF ~tx.nested
             THEN [s |-> rollback(s), tx |-> closed,
                   calls |-> Closing(tx) \o <<"rollback">>, raises |-> FALSE]
             ELSE [s |-> s, tx |-> closed, calls |-> Closing(tx),
                   raises |-> FALSE]
        ELSE IF ~tx.nested
             THEN [s |-> commit(s), tx |-> closed,
                   calls |-> Closing(tx) \o <<"commit">>, raises |-> FALSE]
             ELSE [s |-> s, tx |-> closed, calls |-> Closing(tx),
                   raises |-> FALSE]

\* TxExit with the error path not rolling back
TxExit_NoRollback(tx, s, typ) ==
    LET closed == [tx EXCEPT !.cursor = "closed"]
    IN  IF typ # "None"
        THEN [s |-> s, tx |-> closed, calls |-> Closing(tx), raises |-> TRUE]
        ELSE IF ~tx.nested
             THEN [s |-> commit(s), tx |-> closed,
                   calls |-> Closing(tx) \o <<"commit">>, raises |-> FALSE]
             ELSE [s |-> s, tx |-> closed, calls |-> Closing(tx),
                   raises |-> FALSE]

\* TxExit with the success path ignoring the nested flag
TxExit_CommitsNested(tx, s, typ) ==
    LET closed == [tx EXCEPT !.cursor = "closed"]
    IN  IF typ # "None"
        THEN IF ~tx.nested
             THEN [s |-> rollback(s), tx |-> closed,
                   calls |-> Closing(tx) \o <<"rollback">>, raises |-> TRUE]
             ELSE [s |-> s, tx |-> closed, calls |-> Closing(tx),
                   raises |-> TRUE]
        ELSE [s |-> commit(s), tx |-> closed,
              calls |-> Closing(tx) \o <<"commit">>, raises |-> FALSE]

\* Tx.__exit__(typ, ...): close the cursor unless it is closed, then roll
\* back (typ given) or commit (no exception) unless nested.  Returns the
\* session, the calls made on the cursor and the connection in order, and
\* whether the exception propagates.
TxExit(tx, s, typ) ==
    LET closed == [tx EXCEPT !.cursor = "closed"]
    IN  IF typ # "None"
        THEN IF ~tx.nested
             THEN [s |-> rollback(s), tx |-> closed,
                   calls |-> Closing(tx) \o <<"rollback">>, raises |-> TRUE]
             ELSE [s |-> s, tx |-> closed, calls |-> Closing(tx),
                   raises |-> TRUE]
        ELSE IF ~tx.nested
             THEN [s |-> commit(s), tx |-> closed,
                   calls |-> Closing(tx) \o <<"commit">>, raises |-> FALSE]
             ELSE [s |-> s, tx |-> closed, calls |-> Closing(tx),
                   raises |-> FALSE]

\* the close calls among the calls of an exit
Closes(calls) == Cardinality({i \in DOMAIN calls : calls[i] = "close"})

\* the commit and rollback calls among the calls of an exit
Resolutions(calls) ==
    Cardinality({i \in DOMAIN calls : calls[i] \in {"commit", "rollback"}})

\* no second connection is at work
NoRace == [on |-> FALSE]

NoUnit == [started |-> FALSE, entered |-> 0, calls |-> 0, inner |-> 0,
           failed |-> FALSE, stmts |-> {}]

NoMig == [pc |-> "idle", to |-> 0, v |-> 0, before |-> 0, invoked |-> <<>>,
          result |-> "None", startStatus |-> "IDLE", stored |-> 0]

\* `with Tx(conn) as c:` -- the scope is constructed and entered
With ==
    /\ exc = "None"
    /\ mig.pc = "idle"
    /\ Len(scopes) < MaxDepth
    /\ Len(scopes) > 0 => unit.entered < MaxScopes
    /\ scopes' = Append(scopes, TxEnter(TxInit(Sess)))
    /\ cursors' = cursors + 1
    /\ unit' = IF Len(scopes) = 0
               THEN [NoUnit EXCEPT !.started = TRUE, !.entered = 1]
               ELSE [unit EXCEPT !.entered = @ + 1]
    /\ last' = [op |-> "with"]
    /\ UNCHANGED <<committed, working, status, txStart, now, exc, nstmt, mig,
                   race, hist>>

\* the body of the innermost scope executes a write statement on its cursor
BodyExecute(ok) ==
    /\ exc = "None"
    /\ mig.pc = "idle"
    /\ Len(scopes) > 0
    /\ nstmt < MaxStmts
    /\ LET r == CursorExecute(scopes[Len(scopes)], Sess,
                              [kind |-> "write", id |-> nstmt + 1, ok |-> ok],
                              now)
       IN  /\ SetSess(r.s)
           /\ exc' = r.err
           /\ unit' = IF r.err = "None"
                      THEN [unit EXCEPT !.stmts = @ \cup {nstmt + 1}]
                      ELSE unit
           /\ last' = [op |-> "execute", err |-> r.err]
    /\ nstmt' = nstmt + 1
    /\ UNCHANGED <<now, scopes, cursors, mig, race, hist>>

\* the body of the innermost scope closes the cursor it was given
BodyClose ==
    /\ exc = "None"
    /\ mig.pc = "idle"
    /\ Len(scopes) > 0
    /\ scopes[Len(scopes)].cursor = "open"
    /\ scopes' = [scopes EXCEPT ![Len(scopes)].cursor = "closed"]
    /\ cursors' = cursors - 1
    /\ last' = [op |-> "close"]
    /\ UNCHANGED <<committed, working, status, txStart, now, exc, nstmt, unit,
                   mig, race, hist>>

\* the body of the innermost scope raises an error of its own
BodyRaise ==
    /\ exc = "None"
    /\ mig.pc = "idle"
    /\ Len(scopes) > 0
    /\ exc' = "AssertionError"
    /\ last' = [op |-> "raise"]
    /\ UNCHANGED <<committed, working, status, txStart, now, scopes, cursors,
                   nstmt, unit, mig, race, hist>>

\* an except clause around the raising statement, or around the with block
\* that let the exception out, handles the exception
Except ==
    /\ exc # "None"
    /\ mig.pc = "idle"
    /\ exc' = "None"
    /\ last' = [op |-> "except"]
    /\ UNCHANGED <<committed, working, status, txStart, now, scopes, cursors,
                   nstmt, unit, mig, race, hist>>

\* control leaves the innermost with block: Tx.__exit__ runs with the
\* exception in flight, if any
Exit ==
    /\ Len(scopes) > 0
    /\ mig.pc = "idle"
    /\ LET tx == scopes[Len(scopes)]
           r == TxExit(tx, Sess, exc)
           n == Resolutions(r.calls)
       IN  /\ SetSess(r.s)
           /\ exc' = IF r.raises THEN exc ELSE "None"
           /\ unit' = [unit EXCEPT !.calls = @ + n,
                                   !.inner = @ + (IF Len(scopes) > 1 THEN n
                                                  ELSE 0),
                                   !.failed = @ \/ (exc # "None")]
           /\ cursors' = cursors - Closes(r.calls)
           /\ last' = [op |-> "exit", tx |-> r.tx, typ |-> exc,
                       calls |-> r.calls, depth |-> Len(scopes), pre |-> Sess,
                       entered |-> tx]
    /\ scopes' = SubSeq(scopes, 1, Len(scopes) - 1)
    /\ UNCHANGED <<now, nstmt, mig, race, hist>>

----------------------------------------------------------------------------
(* schema_version and _migrate *)

\* what a function leaves behind when its with block has been left through
\* the exit x: the session, the value returned, the error raised, and the
\* calls made on the connection
Left(x, ret, err, before) ==
    [s |-> x.s, ret |-> ret, err |-> err, calls |-> before \o x.calls]

\* schema_version after the lookup, without the except clause: the error of
\* the lookup leaves the scope
SchemaVersionFetched_NoExcept(tx, r) ==
    IF r.err # "None"
    THEN Left(TxExit(tx, r.s, r.err), -1, r.err, <<>>)
    ELSE IF r.rowcount = 0
    THEN Left(TxExit(tx, r.s, "None"), 0, "None", <<>>)
    ELSE Left(TxExit(tx, r.s, "None"), int(CHOOSE v \in r.rows : TRUE),
              "None", <<>>)

\* schema_version after the lookup r in the scope tx: a ProgrammingError is
\* answered by conn.rollback() and 0, any other error leaves the scope; no
\* row gives 0, a row int(value).
SchemaVersionFetched(tx, r) ==
    IF r.err = "ProgrammingError"
    THEN Left(TxExit(tx, rollback(r.s), "None"), 0, "None", <<"rollback">>)
    ELSE IF r.err # "None"
    THEN Left(TxExit(tx, r.s, r.err), -1, r.err, <<>>)
    ELSE IF r.rowcount = 0
    THEN Left(TxExit(tx, r.s, "None"), 0, "None", <<>>)
    ELSE Left(TxExit(tx, r.s, "None"), int(CHOOSE v \in r.rows : TRUE),
              "None", <<>>)

\* schema_version(conn): the lookup in a scope of its own
schema_version(s, t) ==
    SchemaVersionFetched(TxEnter(TxInit(s)),
                         execute(s, [kind |-> "select_version"], t))

Outcome(r) == [s |-> r.s, err |-> r.err]

\* _migrate_1 after CREATE TABLE meta: seed version 1
Migrate1Created(a, t) ==
    IF a.err # "None"
    THEN Outcome(a)
    ELSE Outcome(execute(a.s, [kind |-> "insert_version"], t))

\* _migrate_1(c): create the meta table and seed version 1
migrate_1(s, t) ==
    Migrate1Created(execute(s, [kind |-> "create_meta"], t), t)

\* _migrate_2 after its CREATE TYPE statements: create the tables
Migrate2Typed(a, t) ==
    IF a.err # "None"
    THEN Outcome(a)
    ELSE Outcome(execute(a.s, [kind |-> "create_schema"], t))

\* _migrate_2(c): create the types, then the tables
migrate_2(s, t) ==
    Migrate2Typed(execute(s, [kind |-> "create_types"], t), t)

\* globs['_migrate_%d' % v](c)
MigrationFunction(v, s, t) ==
    IF v = 1 THEN migrate_1(s, t) ELSE migrate_2(s, t)

Invoked(r) == [s |-> r.s, err |-> r.err, invoked |-> TRUE]

\* the body of the with block after the migration function, without the
\* update of the version row
MigrateBodyStepped_NoVersionUpdate(v, f, t) == Invoked(f)

\* the body of the with block after the migration function, with the
\* version row set to 0 instead of v
MigrateBodyStepped_WritesZero(v, f, t) ==
    IF f.err # "None"
    THEN Invoked(f)
    ELSE Invoked(execute(f.s, [kind |-> "update_version", v |-> 0], t))

\* the body of the with block after the migration function returned f:
\* UPDATE meta SET value = v
MigrateBodyStepped(v, f, t) ==
    IF f.err # "None"
    THEN Invoked(f)
    ELSE Invoked(execute(f.s, [kind |-> "update_version", v |-> v], t))

\* the body of the with block without the assertion, a version without a
\* function running no function
MigrateBody_NoAssert(v, s, t) ==
    IF v \notin MigrationFunctions
    THEN MigrateBodyStepped(v, [s |-> s, err |-> "None"], t)
    ELSE MigrateBodyStepped(v, MigrationFunction(v, s, t), t)

\* the body of the with block of _migrate for version v:
\* assert fname in globs; globs[fname](c); UPDATE meta ...
MigrateBody(v, s, t) ==
    IF v \notin MigrationFunctions
    THEN [s |-> s, err |-> "AssertionError", invoked |-> FALSE]
    ELSE MigrateBodyStepped(v, MigrationFunction(v, s, t), t)

\* the with block has been left through the exit x: the error of the body
\* goes on unless __exit__ answered True
IterationDone(b, x) ==
    [s |-> x.s, err |-> IF x.raises THEN b.err ELSE "None",
     invoked |-> b.invoked, calls |-> x.calls]

IterationExit(tx, b) == IterationDone(b, TxExit(tx, b.s, b.err))

\* one iteration of the loop of _migrate: the body in a scope of its own
MigrateIteration(v, s, t) ==
    IterationExit(TxEnter(TxInit(s)), MigrateBody(v, s, t))

\* the version row of meta, read off the database: 0 without the table or
\* without the row
StoredVersion(db) ==
    LET found == {m \in db.meta : m[1] = "version"}
    IN  IF "meta" \notin db.tables \/ found = {}
        THEN 0
        ELSE int((CHOOSE m \in found : TRUE)[2])

\* the assertion of _migrate switched off
AssertForward_Off(current, to) == TRUE

\* assert current <= to
AssertForward(current, to) == current <= to

\* _migrate after schema_version answered r
MigrateCalled(to, r) ==
    /\ SetSess(r.s)
    /\ IF r.err # "None"
       THEN /\ exc' = r.err
            /\ mig' = [NoMig EXCEPT !.to = to, !.before = r.ret,
                                    !.startStatus = status,
                                    !.stored = StoredVersion(working),
                                    !.result = "raised"]
       ELSE IF ~AssertForward(r.ret, to)
       THEN /\ exc' = "AssertionError"
            /\ mig' = [NoMig EXCEPT !.to = to, !.before = r.ret,
                                    !.startStatus = status,
                                    !.stored = StoredVersion(working),
                                    !.result = "raised"]
       ELSE /\ exc' = "None"
            /\ mig' = [NoMig EXCEPT !.to = to, !.before = r.ret,
                                    !.startStatus = status,
                                    !.stored = StoredVersion(working),
                                    !.pc = IF r.ret + 1 > to THEN "idle"
                                           ELSE "loop",
                                    !.v = IF r.ret + 1 > to THEN 0
                                          ELSE r.ret + 1,
                                    !.result = IF r.ret + 1 > to
                                               THEN "returned" ELSE "None"]
    /\ last' = [op |-> "migrate", to |-> to, pre |-> Sess, current |-> r.ret]

\* _migrate(conn, to) up to its loop: read the version, assert, and return
\* at once when the range current+1 .. to is empty
MigrateCall(to) ==
    /\ exc = "None"
    /\ mig.pc = "idle"
    /\ MigrateCalled(to, schema_version(Sess, now))
    /\ UNCHANGED <<now, scopes, cursors, nstmt, unit, race, hist>>

\* the loop of _migrate after the iteration for mig.v ended as r
MigrateStepped(r, inv) ==
    /\ SetSess(r.s)
    /\ exc' = r.err
    /\ mig' = IF r.err # "None"
              THEN [mig EXCEPT !.pc = "idle", !.invoked = inv,
                               !.result = "raised"]
              ELSE IF mig.v + 1 > mig.to
              THEN [mig EXCEPT !.pc = "idle", !.invoked = inv,
                               !.result = "returned"]
              ELSE [mig EXCEPT !.v = @ + 1, !.invoked = inv]
    /\ last' = [op |-> "migrate_step", v |-> mig.v, pre |-> Sess,
                err |-> r.err, calls |-> r.calls]

Recorded(r) == IF r.invoked THEN Append(mig.invoked, mig.v) ELSE mig.invoked

MigrateSteppedAs(r) == MigrateStepped(r, Recorded(r))

\* the next iteration of the loop of _migrate; the call returns after the
\* iteration for `to`, and is left by the error of a failing iteration
MigrateStep ==
    /\ mig.pc = "loop"
    /\ MigrateSteppedAs(MigrateIteration(mig.v, Sess, now))
    /\ UNCHANGED <<now, scopes, cursors, nstmt, unit, race, hist>>

SchemaVersionCalled(r) ==
    /\ SetSess(r.s)
    /\ exc' = r.err
    /\ last' = [op |-> "schema_version", pre |-> Sess, ret |-> r.ret,
                err |-> r.err, calls |-> r.calls]

\* a call of schema_version(conn)
SchemaVersionCall ==
    /\ exc = "None"
    /\ mig.pc = "idle"
    /\ SchemaVersionCalled(schema_version(Sess, now))
    /\ UNCHANGED <<now, scopes, cursors, nstmt, unit, mig, race, hist>>

----------------------------------------------------------------------------
(* connect *)

\* set_timezone(conn, timezone): SET timezone in a scope of its own
SetTimezoneDone(tx, r) == Left(TxExit(tx, r.s, r.err), 0, r.err, <<>>)

set_timezone(s, ok, t) ==
    SetTimezoneDone(TxEnter(TxInit(s)),
                    execute(s, [kind |-> "set_timezone", ok |-> ok], t))

\* _is_empty after the count, answering TRUE whatever the count
IsEmptyCounted_AlwaysTrue(tx, r) ==
    IF r.err # "None"
    THEN Left(TxExit(tx, r.s, r.err), FALSE, r.err, <<>>)
    ELSE Left(TxExit(tx, r.s, "None"), TRUE, "None", <<>>)

\* _is_empty after the count r in the scope tx: TRUE iff the count is 0
IsEmptyCounted(tx, r) ==
    IF r.err # "None"
    THEN Left(TxExit(tx, r.s, r.err), FALSE, r.err, <<>>)
    ELSE Left(TxExit(tx, r.s, "None"), (CHOOSE n \in r.rows : TRUE) = 0,
              "None", <<>>)

\* _is_empty(conn): count the tables of the public schema in a scope
is_empty(s, t) ==
    IsEmptyCounted(TxEnter(TxInit(s)),
                   execute(s, [kind |-> "count_tables"], t))

\* _bind_type(conn, sql_type_name, cast): SELECT NULL::type in a scope
BindTypeSelected(tx, r) == Left(TxExit(tx, r.s, r.err), 0, r.err, <<>>)

bind_type(s, name, t) ==
    BindTypeSelected(TxEnter(TxInit(s)),
                     execute(s, [kind |-> "select_null", type |-> name], t))

RECURSIVE BindTypes(_, _, _)

BindTypesNext(i, r, t) ==
    IF r.err # "None" THEN Outcome(r) ELSE BindTypes(i + 1, r.s, t)

\* the calls of _bind_type at the end of connect, from the i-th on
BindTypes(i, s, t) ==
    IF i > Len(BoundTypes)
    THEN [s |-> s, err |-> "None"]
    ELSE BindTypesNext(i, bind_type(s, BoundTypes[i], t), t)

Migrated(s, err, inv) == [s |-> s, err |-> err, invoked |-> inv]

RECURSIVE MigrateLoop(_, _, _, _, _)

\* the loop of _migrate after the iteration for v ended as r
MigrateLooped(v, to, r, t, inv) ==
    IF r.err # "None"
    THEN Migrated(r.s, r.err, IF r.invoked THEN Append(inv, v) ELSE inv)
    ELSE MigrateLoop(v + 1, to, r.s, t, Append(inv, v))

\* for v in xrange(current+1, to+1), from v on
MigrateLoop(v, to, s, t, inv) ==
    IF v > to
    THEN Migrated(s, "None", inv)
    ELSE MigrateLooped(v, to, MigrateIteration(v, s, t), t, inv)

\* _migrate after schema_version answered r
MigrateFrom(to, r, t) ==
    IF r.err # "None"
    THEN Migrated(r.s, r.err, <<>>)
    ELSE IF ~AssertForward(r.ret, to)
    THEN Migrated(r.s, "AssertionError", <<>>)
    ELSE MigrateLoop(r.ret + 1, to, r.s, t, <<>>)

\* _migrate(conn, to) as connect calls it, from call to return
migrate(s, to, t) == MigrateFrom(to, schema_version(s, t), t)

ConnectBound(m, b) == Migrated(b.s, b.err, m.invoked)

\* connect after _migrate ended as m: bind the casting functions
ConnectMigrated(m, t) ==
    IF m.err # "None"
    THEN m
    ELSE ConnectBound(m, BindTypes(1, m.s, t))

\* connect after _is_empty answered e: assert the database is empty
ConnectChecked(e, t) ==
    IF e.err # "None"
    THEN Migrated(e.s, e.err, <<>>)
    ELSE IF ~e.ret
    THEN Migrated(e.s, "AssertionError", <<>>)
    ELSE ConnectMigrated(migrate(e.s, api_version, t), t)

\* connect after schema_version answered sv:
\* assert sversion <= api_version
\* assert sversion > 0 or (sversion == 0 and _is_empty(conn))
ConnectVersioned(sv, t) ==
    IF sv.err # "None"
    THEN Migrated(sv.s, sv.err, <<>>)
    ELSE IF ~(sv.ret <= api_version)
    THEN Migrated(sv.s, "AssertionError", <<>>)
    ELSE IF sv.ret > 0
    THEN ConnectMigrated(migrate(sv.s, api_version, t), t)
    ELSE ConnectChecked(is_empty(sv.s, t), t)

ConnectZoned(z, t) ==
    IF z.err # "None"
    THEN Migrated(z.s, z.err, <<>>)
    ELSE ConnectVersioned(schema_version(z.s, t), t)

\* connect(...) on the new connection s: set the time zone, check the
\* version, migrate to api_version, bind the types
connect(s, tzok, t) == ConnectZoned(set_timezone(s, tzok, t), t)

\* psycopg2.connect: a new connection, idle, seeing the committed state
NewConnection ==
    [committed |-> committed, working |-> committed, status |-> "IDLE",
     txStart |-> txStart]

ConnectCalled(tzok, r) ==
    /\ SetSess(r.s)
    /\ exc' = r.err
    /\ last' = [op |-> "connect", tzok |-> tzok, pre |-> NewConnection,
                err |-> r.err, invoked |-> r.invoked]

\* a call of connect with a time zone the server knows (tzok) or not; the
\* connection it opens is the one the later calls use
ConnectCall(tzok) ==
    /\ exc = "None"
    /\ mig.pc = "idle"
    /\ Len(scopes) = 0
    /\ ConnectCalled(tzok, connect(NewConnection, tzok, now))
    /\ UNCHANGED <<now, scopes, cursors, nstmt, unit, mig, race, hist>>

----------------------------------------------------------------------------
(* _upsert and _big_insert *)

\* [k for k, _ in data] and [v for _, v in data]
Keys(data) == [i \in DOMAIN data |-> data[i][1]]
Vals(data) == [i \in DOMAIN data |-> data[i][2]]

\* ['%s' for _ in data]
Places(data) == [i \in DOMAIN data |-> "%s"]

\* the statement of _upsert with the UPDATE also setting time_inserted
UpsertQuery_UpdateStampsInserted(table, data, pk) ==
    [kind |-> "upsert", table |-> table,
     update_cols |-> Keys(data) \o (IF table \in StampedTables
                                    THEN <<"time_inserted", "time_updated">>
                                    ELSE <<>>),
     update_places |-> Places(data) \o (IF table \in StampedTables
                                        THEN <<"NOW()", "NOW()">> ELSE <<>>),
     insert_fields |-> Keys(data) \o (IF table \in StampedTables
                                      THEN <<"time_inserted", "time_updated">>
                                      ELSE <<>>),
     insert_places |-> Places(data) \o (IF table \in StampedTables
                                        THEN <<"NOW()", "NOW()">> ELSE <<>>),
     pk_cols |-> Keys(pk),
     pk_places |-> Places(pk),
     params |-> Vals(data) \o Vals(pk) \o Vals(data) \o Vals(pk)]

\* the statement of _upsert with the INSERT listing the key columns instead
\* of the body columns
UpsertQuery_InsertsKey(table, data, pk) ==
    [kind |-> "upsert", table |-> table,
     update_cols |-> Keys(data) \o (IF table \in StampedTables
                                    THEN <<"time_updated">> ELSE <<>>),
     update_places |-> Places(data) \o (IF table \in StampedTables
                                        THEN <<"NOW()">> ELSE <<>>),
     insert_fields |-> Keys(pk) \o (IF table \in StampedTables
                                    THEN <<"time_inserted", "time_updated">>
                                    ELSE <<>>),
     insert_places |-> Places(pk) \o (IF table \in StampedTables
                                      THEN <<"NOW()", "NOW()">> ELSE <<>>),
     pk_cols |-> Keys(pk),
     pk_places |-> Places(pk),
     params |-> Vals(data) \o Vals(pk) \o Vals(pk) \o Vals(pk)]

\* the statement _upsert builds and the values it binds: update_set,
\* insert_fields, insert_places, pk_cond, and
\* values + pk_values + values + pk_values
UpsertQuery(table, data, pk) ==
    [kind |-> "upsert", table |-> table,
     update_cols |-> Keys(data) \o (IF table \in StampedTables
                                    THEN <<"time_updated">> ELSE <<>>),
     update_places |-> Places(data) \o (IF table \in StampedTables
                                        THEN <<"NOW()">> ELSE <<>>),
     insert_fields |-> Keys(data) \o (IF table \in StampedTables
                                      THEN <<"time_inserted", "time_updated">>
                                      ELSE <<>>),
     insert_places |-> Places(data) \o (IF table \in StampedTables
                                        THEN <<"NOW()", "NOW()">> ELSE <<>>),
     pk_cols |-> Keys(pk),
     pk_places |-> Places(pk),
     params |-> Vals(data) \o Vals(pk) \o Vals(data) \o Vals(pk)]

\* _upsert(cursor, table, data, pk): one execute; a ProgrammingError is
\* printed and raised again
upsert(s, table, data, pk, t) ==
    Outcome(execute(s, UpsertQuery(table, data, pk), t))

\* times(vals(data)): the values of a row, NOW() twice on a stamped table
times(xs, stamped) == IF stamped THEN xs \o <<"NOW()", "NOW()">> ELSE xs

\* the statement of _big_insert with the values of the first row only
BigInsertQuery_FirstRowOnly(table, datas) ==
    [kind |-> "big_insert", table |-> table,
     insert_fields |-> Keys(datas[1]) \o (IF table \in StampedTables
                                          THEN <<"time_inserted",
                                                 "time_updated">>
                                          ELSE <<>>),
     values |-> <<times(Vals(datas[1]), table \in StampedTables)>>]

\* the statement _big_insert builds: the columns of datas[0] and the values
\* of every row
BigInsertQuery(table, datas) ==
    [kind |-> "big_insert", table |-> table,
     insert_fields |-> Keys(datas[1]) \o (IF table \in StampedTables
                                          THEN <<"time_inserted",
                                                 "time_updated">>
                                          ELSE <<>>),
     values |-> [j \in DOMAIN datas |->
                    times(Vals(datas[j]), table \in StampedTables)]]

Executed(r, n) == [s |-> r.s, err |-> r.err, executes |-> n]

\* _big_insert(cursor, table, datas): datas[0] of an empty list is an
\* IndexError; otherwise one execute
big_insert(s, table, datas, t) ==
    IF Len(datas) = 0
    THEN [s |-> s, err |-> "IndexError", executes |-> 0]
    ELSE Executed(execute(s, BigInsertQuery(table, datas), t), 1)

UpsertCalled(table, data, pk, r) ==
    /\ SetSess(r.s)
    /\ exc' = r.err
    /\ last' = [op |-> "upsert", table |-> table, data |-> data, pk |-> pk,
                q |-> UpsertQuery(table, data, pk), pre |-> Sess,
                err |-> r.err]

\* the body of the innermost scope calls _upsert with its cursor
Upsert(table, data, pk) ==
    /\ exc = "None"
    /\ mig.pc = "idle"
    /\ Len(scopes) > 0
    /\ scopes[Len(scopes)].cursor = "open"
    /\ nstmt = 0
    /\ UpsertCalled(table, data, pk, upsert(Sess, table, data, pk, now))
    /\ nstmt' = nstmt + 1
    /\ UNCHANGED <<now, scopes, cursors, unit, mig, race, hist>>

BigInsertCalled(table, datas, r) ==
    /\ SetSess(r.s)
    /\ exc' = r.err
    /\ last' = [op |-> "big_insert", table |-> table, datas |-> datas,
                pre |-> Sess, err |-> r.err, executes |-> r.executes]

\* the body of the innermost scope calls _big_insert with its cursor
BigInsert(table, datas) ==
    /\ exc = "None"
    /\ mig.pc = "idle"
    /\ Len(scopes) > 0
    /\ scopes[Len(scopes)].cursor = "open"
    /\ nstmt = 0
    /\ BigInsertCalled(table, datas, big_insert(Sess, table, datas, now))
    /\ nstmt' = nstmt + 1
    /\ UNCHANGED <<now, scopes, cursors, unit, mig, race, hist>>

\* time passes on the server
Tick ==
    /\ now < MaxNow
    /\ now' = now + 1
    /\ last' = [op |-> "tick"]
    /\ UNCHANGED <<committed, working, status, txStart, scopes, cursors, exc,
                   nstmt, unit, mig, race, hist>>

----------------------------------------------------------------------------
(* _upsert and _big_insert called again *)

(***************************************************************************)
(* A caller makes a call of _upsert or _big_insert and then makes the same *)
(* call again, in the scope of the first call or in a later scope.  `hist` *)
(* holds the calls made, in order, each with the session before and after  *)
(* it and the error it raised.                                             *)
(***************************************************************************)
UpsertCall(table, data, pk) ==
    [op |-> "upsert", table |-> table, data |-> data, pk |-> pk]

BigInsertCall(table, datas) ==
    [op |-> "big_insert", table |-> table, datas |-> datas]

\* the caller may make this call now
InTurn(call) ==
    /\ Len(hist) < MaxCalls
    /\ Len(hist) > 0 => hist[1].call = call

TurnTaken(call, r) ==
    hist' = Append(hist, [call |-> call, pre |-> Sess, err |-> r.err])

\* the body of the innermost scope calls _upsert with its cursor
UpsertInTurn(table, data, pk) ==
    /\ exc = "None"
    /\ mig.pc = "idle"
    /\ Len(scopes) > 0
    /\ scopes[Len(scopes)].cursor = "open"
    /\ InTurn(UpsertCall(table, data, pk))
    /\ UpsertCalled(table, data, pk, upsert(Sess, table, data, pk, now))
    /\ TurnTaken(UpsertCall(table, data, pk),
                 upsert(Sess, table, data, pk, now))
    /\ UNCHANGED <<now, scopes, cursors, nstmt, unit, mig, race>>

\* the body of the innermost scope calls _big_insert with its cursor
BigInsertInTurn(table, datas) ==
    /\ exc = "None"
    /\ mig.pc = "idle"
    /\ Len(scopes) > 0
    /\ scopes[Len(scopes)].cursor = "open"
    /\ InTurn(BigInsertCall(table, datas))
    /\ BigInsertCalled(table, datas, big_insert(Sess, table, datas, now))
    /\ TurnTaken(BigInsertCall(table, datas),
                 big_insert(Sess, table, datas, now))
    /\ UNCHANGED <<now, scopes, cursors, nstmt, unit, mig, race>>

----------------------------------------------------------------------------
(* _upsert on two connections *)

(***************************************************************************)
(* Two connections each run, in a scope of their own, one _upsert with the *)
(* same key on the same table, under PostgreSQL's default isolation (READ  *)
(* COMMITTED): each of the two statements of the upsert sees the rows      *)
(* committed when it starts and the changes of its own transaction; an     *)
(* UPDATE waits for a row another transaction has changed; an INSERT whose *)
(* primary key another open transaction has written waits for that         *)
(* transaction, and fails if it commits.  `race` holds                     *)
(*   table, pk : the table and the key of both calls                       *)
(*   rows      : the committed rows of the table                           *)
(*   locking   : the callers take an external lock around scope and call   *)
(*   holder    : the connection holding that lock, or 0                    *)
(*   conn[c]   : the call of connection c: its place (pc), its body (data),*)
(*               the rows it has changed (upd, as <<old, new>>) and        *)
(*               inserted (ins), the row its INSERT is about to add        *)
(*               (pending), whether its INSERT passed NOT EXISTS           *)
(*               (attempted), and the error raised                         *)
(***************************************************************************)
Conns == {1, 2}

Other(c) == CHOOSE o \in Conns : o # c

\* the state of the single connection, which takes no part here
OneConnection ==
    <<committed, working, status, txStart, now, scopes, cursors, hist, exc,
      nstmt, unit, mig, last>>

\* the statement connection c executes
RaceQuery(c) == UpsertQuery(race.table, race.conn[c].data, race.pk)

\* the values bound to pk_cond
WhereVals(q) == Bind(q.pk_places, q.params, NParams(q.update_places))

Olds(c) == {p[1] : p \in race.conn[c].upd}
News(c) == {p[2] : p \in race.conn[c].upd}

\* the rows a statement of connection c sees when it starts now
Visible(c) == ((race.rows \ Olds(c)) \cup News(c)) \cup race.conn[c].ins

\* the rows connection c has written and not yet committed
Written(c) == News(c) \cup race.conn[c].ins

\* some row of xs has the primary key of some row of ys
SamePk(xs, ys) ==
    \E x \in xs : \E y \in ys : PkOf(race.table, x) = PkOf(race.table, y)

\* the caller of connection c takes the external lock
RaceLock(c) ==
    /\ race.locking
    /\ race.conn[c].pc = "start"
    /\ race.holder = 0
    /\ race' = [race EXCEPT !.holder = c]
    /\ UNCHANGED OneConnection

\* the UPDATE of connection c has run with outcome u on the rows `matched`
RaceUpdated(c, q, u, matched) ==
    IF u.err # "None"
    THEN [race EXCEPT !.conn[c].pc = "failed", !.conn[c].err = u.err]
    ELSE [race EXCEPT !.conn[c].pc = "updated",
                      !.conn[c].upd =
                          {<<r, Updated(r, q.update_cols,
                                        Bind(q.update_places, q.params, 0),
                                        q.pk_cols, WhereVals(q), now)>> :
                              r \in matched}]

\* the rows of the table the UPDATE of q matches
MatchedBy(q) == {r \in race.rows : Matches(r, q.pk_cols, WhereVals(q))}

\* cursor.execute(q, ...) of connection c, first statement: the UPDATE.  It
\* waits while the other connection has changed a row it matches.
RaceUpdate(c) ==
    /\ race.conn[c].pc = "start"
    /\ race.locking => race.holder = c
    /\ MatchedBy(RaceQuery(c)) \cap Olds(Other(c)) = {}
    /\ race' = RaceUpdated(c, RaceQuery(c),
                           UpsertUpdate(race.rows, RaceQuery(c), now),
                           MatchedBy(RaceQuery(c)))
    /\ UNCHANGED OneConnection

\* the INSERT of connection c has evaluated NOT EXISTS on the rows it sees
\* and built its row: a is the outcome on those rows alone
RaceInserting(c, q, seen, a) ==
    IF a.err # "None"
    THEN [race EXCEPT !.conn[c].pc = "failed", !.conn[c].err = a.err,
                      !.conn[c].attempted =
                          ~\E r \in seen : Matches(r, q.pk_cols, WhereVals(q))]
    ELSE IF a.rows = seen
    THEN [race EXCEPT !.conn[c].pc = "done"]
    ELSE [race EXCEPT !.conn[c].pc = "inserting",
                      !.conn[c].pending = a.rows \ seen,
                      !.conn[c].attempted = TRUE]

\* second statement: INSERT ... SELECT ... WHERE NOT EXISTS (...), up to
\* the check of the primary key against the other open transaction
RaceInsertBegin(c) ==
    /\ race.conn[c].pc = "updated"
    /\ race' = RaceInserting(c, RaceQuery(c), Visible(c),
                             UpsertInsert(EmptyDb, RaceQuery(c),
                                          [rows |-> Visible(c),
                                           err |-> "None"], now))
    /\ UNCHANGED OneConnection

\* the INSERT ends: it has waited for the other transaction if that one
\* wrote its primary key, and fails if the key is committed by now
RaceInsertEnd(c) ==
    /\ race.conn[c].pc = "inserting"
    /\ ~SamePk(race.conn[c].pending, Written(Other(c)))
    /\ race' = IF SamePk(race.conn[c].pending, Visible(c))
               THEN [race EXCEPT !.conn[c].pc = "failed",
                                 !.conn[c].err = "IntegrityError",
                                 !.conn[c].pending = {}]
               ELSE [race EXCEPT !.conn[c].pc = "done",
                                 !.conn[c].ins = race.conn[c].pending,
                                 !.conn[c].pending = {}]
    /\ UNCHANGED OneConnection

\* the scope of connection c exits: commit after a successful execute,
\* rollback after a failed one; the caller then releases its lock
RaceExit(c) ==
    /\ race.conn[c].pc \in {"done", "failed"}
    /\ race' = [race EXCEPT
                   !.rows = IF race.conn[c].pc = "done" THEN Visible(c)
                            ELSE @,
                   !.conn[c].pc = IF race.conn[c].pc = "done"
                                  THEN "committed" ELSE "rolledback",
                   !.conn[c].upd = {},
                   !.conn[c].ins = {},
                   !.holder = IF @ = c THEN 0 ELSE @]
    /\ UNCHANGED OneConnection

----------------------------------------------------------------------------
(* Scopes nested in any way around write statements *)

Init ==
    /\ committed = EmptyDb
    /\ working = EmptyDb
    /\ status = "IDLE"
    /\ txStart = 0
    /\ now = 0
    /\ scopes = <<>>
    /\ cursors = 0
    /\ race = NoRace
    /\ hist = <<>>
    /\ exc = "None"
    /\ nstmt = 0
    /\ unit = NoUnit
    /\ mig = NoMig
    /\ last = [op |-> "init"]

Next ==
    \/ With
    \/ \E ok \in BOOLEAN : BodyExecute(ok)
    \/ BodyClose
    \/ BodyRaise
    \/ Except
    \/ Exit

Spec == Init /\ [][Next]_vars

----------------------------------------------------------------------------
(* Migrations of a database found in any of the states connect expects *)

DbAt(tables, meta) ==
    [tables |-> tables,
     types |-> IF Step2Tables \subseteq tables THEN Step2Types ELSE {},
     meta |-> meta, rows |-> EmptyRows, log |-> {}]

\* an empty database; one without meta that holds a table; meta without a
\* version row; versions 1, 2 and 3 (a newer library's); version 1 with a
\* table of step 2 already there
InitDbs ==
    { DbAt({}, {}),
      DbAt({"team"}, {}),
      DbAt(Step1Tables, {}),
      DbAt(Step1Tables, {<<"version", "1">>}),
      DbAt(Step1Tables \cup {"team"}, {<<"version", "1">>}),
      DbAt(Step1Tables \cup Step2Tables, {<<"version", "2">>}),
      DbAt(Step1Tables \cup Step2Tables, {<<"version", "3">>}) }

InitMigrate ==
    /\ committed \in InitDbs
    /\ working = committed
    /\ status = "IDLE"
    /\ txStart = 0
    /\ now = 0
    /\ scopes = <<>>
    /\ cursors = 0
    /\ race = NoRace
    /\ hist = <<>>
    /\ exc = "None"
    /\ nstmt = 0
    /\ unit = NoUnit
    /\ mig = NoMig
    /\ last = [op |-> "init"]

\* The caller of _migrate and schema_version may hold a scope of its own, in
\* which it has run a statement or not.
NextMigrate ==
    \/ \E to \in 0..MaxTarget : MigrateCall(to)
    \/ MigrateStep
    \/ SchemaVersionCall
    \/ (Len(scopes) < MigDepth /\ With)
    \/ (nstmt < MigStmts /\ \E ok \in BOOLEAN : BodyExecute(ok))
    \/ Except
    \/ Exit

SpecMigrate == InitMigrate /\ [][NextMigrate]_vars

----------------------------------------------------------------------------
(* Calls of connect and _migrate, in any order, on one database *)

\* connect is called between units of work; _migrate and schema_version
\* also from within a caller's scope
NextConnect ==
    \/ \E tzok \in BOOLEAN : ConnectCall(tzok)
    \/ \E to \in 0..MaxTarget : MigrateCall(to)
    \/ MigrateStep
    \/ SchemaVersionCall
    \/ (Len(scopes) < MigDepth /\ With)
    \/ (nstmt < MigStmts /\ \E ok \in BOOLEAN : BodyExecute(ok))
    \/ Except
    \/ Exit

SpecConnect == InitMigrate /\ [][NextConnect]_vars

\* the same calls on a database created empty
SpecFresh == Init /\ [][NextConnect]_vars

----------------------------------------------------------------------------
(* One _upsert or _big_insert on data tables in any valid state *)

\* association lists of up to MaxCols columns of a table, each column once
AssocLists(table) ==
    {al \in UNION {[1..n -> InputColumns(table) \X Values] : n \in 1..MaxCols} :
        \A i, j \in DOMAIN al : al[i][1] = al[j][1] => i = j}

\* batches of up to MaxRows association lists
Batches(table) == UNION {[1..n -> AssocLists(table)] : n \in 0..MaxRows}

\* the rows a table may hold before the call, written at time 0
RowSpace(table) ==
    IF table = "game"
    THEN [gsis_id : Values, gamekey : Values \cup {NULL},
          time_inserted : {0}, time_updated : {0}]
    ELSE [player_id : Values, full_name : Values \cup {NULL}]

TableStates(table) ==
    {rs \in SUBSET RowSpace(table) :
        \A r1, r2 \in rs : PkOf(table, r1) = PkOf(table, r2) => r1 = r2}

\* the schema of version 2 with rows in one of the data tables
UpsertDbs ==
    {[tables |-> Step1Tables \cup Step2Tables,
      types |-> Step2Types,
      meta |-> {<<"version", "2">>},
      rows |-> [game |-> g, player |-> p],
      log |-> {}] :
        <<g, p>> \in (TableStates("game") \X {{}})
                     \cup ({{}} \X TableStates("player"))}

InitUpsert ==
    /\ committed \in UpsertDbs
    /\ working = committed
    /\ status = "IDLE"
    /\ txStart = 0
    /\ now = 0
    /\ scopes = <<>>
    /\ cursors = 0
    /\ race = NoRace
    /\ hist = <<>>
    /\ exc = "None"
    /\ nstmt = 0
    /\ unit = NoUnit
    /\ mig = NoMig
    /\ last = [op |-> "init"]

\* a caller opens a scope, calls _upsert or _big_insert once in it, and
\* leaves the scope
NextUpsert ==
    \/ Tick
    \/ (Len(scopes) = 0 /\ With)
    \/ \E table \in DataTables :
          \E data \in AssocLists(table) : \E pk \in AssocLists(table) :
             Upsert(table, data, pk)
    \/ \E table \in DataTables :
          \E datas \in Batches(table) : BigInsert(table, datas)
    \/ Except
    \/ Exit

SpecUpsert == InitUpsert /\ [][NextUpsert]_vars

----------------------------------------------------------------------------
(* The same _upsert or _big_insert made again *)

\* a caller opens a scope, makes a call in it, and makes the same call again
\* there or in a scope opened after it
NextTurns ==
    \/ (Len(scopes) = 0 /\ Tick)
    \/ (Len(scopes) = 0 /\ With)
    \/ \E table \in DataTables :
          \E data \in AssocLists(table) : \E pk \in AssocLists(table) :
             UpsertInTurn(table, data, pk)
    \/ \E table \in DataTables :
          \E datas \in Batches(table) : BigInsertInTurn(table, datas)
    \/ Exit

\* the table of the call holds up to TurnRows rows before the first call
InitTurns ==
    /\ InitUpsert
    /\ \A table \in DataTables :
          Cardinality(committed.rows[table]) <= TurnRows

SpecTurns == InitTurns /\ [][NextTurns]_vars

----------------------------------------------------------------------------
(* Two connections, one _upsert each, with the same key *)

\* a key over the primary key of the table
PrimaryKeys(table) ==
    {pk \in AssocLists(table) : Elems(Keys(pk)) = PrimaryKey(table)}

RaceConn(data) ==
    [pc |-> "start", data |-> data, upd |-> {}, ins |-> {}, pending |-> {},
     attempted |-> FALSE, err |-> "None"]

RaceStarts ==
    UNION {
        {[on |-> TRUE, table |-> table, pk |-> pk, rows |-> rows,
          locking |-> locking, holder |-> 0,
          conn |-> [c \in Conns |-> RaceConn(datas[c])]] :
             pk \in PrimaryKeys(table),
             rows \in {rs \in TableStates(table) : Cardinality(rs) <= RaceRows},
             locking \in BOOLEAN, datas \in [Conns -> AssocLists(table)]} :
        table \in DataTables}

InitRace ==
    /\ committed = EmptyDb
    /\ working = EmptyDb
    /\ status = "IDLE"
    /\ txStart = 0
    /\ now = 0
    /\ scopes = <<>>
    /\ cursors = 0
    /\ exc = "None"
    /\ nstmt = 0
    /\ unit = NoUnit
    /\ mig = NoMig
    /\ last = [op |-> "init"]
    /\ hist = <<>>
    /\ race \in RaceStarts

NextRace ==
    \E c \in Conns :
        \/ RaceLock(c)
        \/ RaceUpdate(c)
        \/ RaceInsertBegin(c)
        \/ RaceInsertEnd(c)
        \/ RaceExit(c)

SpecRace == InitRace /\ [][NextRace]_vars

----------------------------------------------------------------------------
(* Claims about Tx, under Spec *)

UnitOver == unit.started /\ Len(scopes) = 0

\* C1: in every nesting of scopes, exactly one commit-or-rollback call is
\* made per top-level unit of work, and the outermost scope's exit makes it:
\* no exit of an inner scope calls commit or rollback, and once the unit is
\* over exactly one call has been made.
C1_OneResolutionByOutermost ==
    /\ unit.inner = 0
    /\ UnitOver => unit.calls = 1

\* C2: a unit of work is atomic: nothing it wrote is committed before its
\* outermost scope exits; once it is over, none of its statements is
\* committed if a scope of it failed, and all of them are if none failed.
C2_UnitAtomic ==
    /\ (unit.started /\ Len(scopes) > 0) => unit.stmts \cap committed.log = {}
    /\ UnitOver =>
          IF unit.failed
          THEN unit.stmts \cap committed.log = {}
          ELSE unit.stmts \subseteq committed.log

\* C3: the exit of a scope constructed while the connection was in a
\* transaction (status INTRANS) calls neither commit nor rollback, whether
\* its body succeeded or raised, and leaves the transaction status, the
\* uncommitted work and the committed state as they were.
C3_NestedExitTouchesNothing ==
    (last.op = "exit" /\ last.tx.initStatus = "INTRANS") =>
        /\ Resolutions(last.calls) = 0
        /\ status = last.pre.status
        /\ working = last.pre.working
        /\ committed = last.pre.committed

\* a nested scope whose body succeeded has exited over uncommitted work of
\* the enclosing scope
C3_Witness ==
    /\ last.op = "exit"
    /\ last.tx.initStatus = "INTRANS"
    /\ last.typ = "None"
    /\ last.depth > 1
    /\ working.log # committed.log

----------------------------------------------------------------------------
(* Claims about schema_version and _migrate, under SpecMigrate *)

\* the versions a+1 .. b in ascending order
Ascending(a, b) == [i \in 1..(b - a) |-> a + i]

MigrateReturned ==
    /\ last.op \in {"migrate", "migrate_step"}
    /\ mig.pc = "idle"
    /\ mig.result = "returned"

\* C4: when _migrate(conn, to), called with to >= the stored version on a
\* connection that is not in a transaction, returns, schema_version(conn)
\* is `to` and the steps invoked are exactly stored+1 .. to, once each, in
\* ascending order (none when to is the stored version).
C4_MigrateReachesTarget ==
    (MigrateReturned /\ mig.startStatus = "IDLE") =>
        /\ mig.stored <= mig.to
        /\ schema_version(Sess, now).err = "None"
        /\ schema_version(Sess, now).ret = mig.to
        /\ StoredVersion(committed) = mig.to
        /\ mig.invoked = Ascending(mig.stored, mig.to)

\* a migration from an empty database to version 2 has returned
C4_Witness ==
    /\ MigrateReturned
    /\ mig.startStatus = "IDLE"
    /\ mig.stored = 0
    /\ mig.to = 2
    /\ mig.invoked = <<1, 2>>

\* C5: _migrate(conn, to) with to below the stored version, on a connection
\* that accepts statements, fails with the assertion before any step is
\* invoked and leaves the stored version and the schema as they were.
C5_BackwardMigrateRefused ==
    (/\ last.op = "migrate"
     /\ last.pre.status # "INERROR"
     /\ last.to < StoredVersion(last.pre.working)) =>
        /\ exc = "AssertionError"
        /\ mig.pc = "idle"
        /\ mig.result = "raised"
        /\ mig.invoked = <<>>
        /\ committed = last.pre.committed
        /\ working = last.pre.working

\* _migrate to version 1 has been refused on a database at version 2
C5_Witness ==
    /\ last.op = "migrate"
    /\ last.to = 1
    /\ StoredVersion(last.pre.working) = 2
    /\ exc = "AssertionError"

\* C6: on a connection that accepts statements schema_version returns 0
\* without raising when the meta table does not exist and when it has no
\* version row, and otherwise the stored integer; a connection that was
\* idle at the call is idle afterwards.
C6_SchemaVersionDefaultsToZero ==
    (last.op = "schema_version" /\ last.pre.status # "INERROR") =>
        LET db == last.pre.working
            found == {m \in db.meta : m[1] = "version"}
        IN  /\ last.err = "None"
            /\ exc = "None"
            /\ "meta" \notin db.tables => last.ret = 0
            /\ ("meta" \in db.tables /\ found = {}) => last.ret = 0
            /\ ("meta" \in db.tables /\ found # {}) =>
                   \A m \in found : str(last.ret) = m[2]
            /\ last.pre.status = "IDLE" => status = "IDLE"

\* schema_version has answered 0 on an idle connection to a database
\* without the meta table
C6_Witness ==
    /\ last.op = "schema_version"
    /\ last.pre.status = "IDLE"
    /\ "meta" \notin last.pre.working.tables
    /\ last.ret = 0
    /\ status = "IDLE"

----------------------------------------------------------------------------
(* Claims about _upsert and _big_insert, under SpecUpsert *)

TimeColumns == {"time_inserted", "time_updated"}

\* the rows of the table of the last call, before and after it
PreRows == last.pre.working.rows[last.table]
PostRows == working.rows[last.table]

\* the value an association list gives a column
ValOf(al, c) == al[CHOOSE i \in DOMAIN al : al[i][1] = c][2]

\* the row satisfies the key predicate of the last _upsert
KeyMatch(r) == \A i \in DOMAIN last.pk : r[last.pk[i][1]] = last.pk[i][2]

\* the row carries the values of the association list
Carries(r, al) == \A i \in DOMAIN al : r[al[i][1]] = al[i][2]

\* the body holds every key column, with the key's value
KeyInBody ==
    \A i \in DOMAIN last.pk : \E j \in DOMAIN last.data :
        last.data[j] = last.pk[i]

DisjointColumns == Elems(Keys(last.data)) \cap Elems(Keys(last.pk)) = {}

\* the row made of the columns of an association list, both timestamps at
\* `t` on a stamped table, and NULL elsewhere
RowOf(table, al, t) ==
    [c \in Columns(table) |->
        IF c \in Elems(Keys(al)) THEN ValOf(al, c)
        ELSE IF c \in TimeColumns THEN t
        ELSE NULL]

UpsertOnNoMatch ==
    /\ last.op = "upsert"
    /\ ~\E r \in PreRows : KeyMatch(r)

KeyIsPrimary ==
    /\ PrimaryKey(last.table) \subseteq Elems(Keys(last.pk))
    /\ \A i \in DOMAIN last.pk : \A j \in DOMAIN last.data :
          last.data[j][1] = last.pk[i][1] => last.data[j][2] = last.pk[i][2]

\* C8: _upsert on a table that holds a row matching the key (a predicate
\* over the primary key, not contradicted by the body) succeeds, sets that
\* row's body columns to the given values, inserts nothing (the row count
\* is unchanged and exactly one row matches the key), and leaves every row
\* that does not match the key unchanged.
C8_UpdateInPlace ==
    (/\ last.op = "upsert"
     /\ KeyIsPrimary
     /\ \E r \in PreRows : KeyMatch(r)) =>
        /\ last.err = "None"
        /\ Cardinality(PostRows) = Cardinality(PreRows)
        /\ \A r \in PreRows : ~KeyMatch(r) => r \in PostRows
        /\ \E r \in PostRows :
              /\ {x \in PostRows : KeyMatch(x)} = {r}
              /\ Carries(r, last.data)
              /\ \E o \in PreRows :
                    /\ KeyMatch(o)
                    /\ \A c \in InputColumns(last.table) \ Elems(Keys(last.data)) :
                          r[c] = o[c]

\* _upsert has changed a body column of the one matching row of a table of
\* two rows
C8_Witness ==
    /\ last.op = "upsert"
    /\ KeyIsPrimary
    /\ last.err = "None"
    /\ Cardinality(PreRows) = 2
    /\ \E r \in PreRows : KeyMatch(r) /\ r \notin PostRows

\* C9: on a stamped table the insert branch of _upsert sets time_inserted
\* and time_updated to NOW(), and the update branch sets time_updated to
\* NOW() and leaves time_inserted of the row as it was; on any other table
\* the statement names no timestamp column in either branch.
C9_Stamps ==
    (last.op = "upsert" /\ last.err = "None") =>
        IF last.table \in StampedTables
        THEN /\ (~\E o \in PreRows : KeyMatch(o)) =>
                   /\ PostRows \ PreRows # {}
                   /\ \A r \in PostRows \ PreRows :
                          /\ r.time_inserted = txStart
                          /\ r.time_updated = txStart
             /\ \A o \in PreRows :
                   KeyMatch(o) =>
                       \E r \in PostRows :
                           /\ Carries(r, last.data)
                           /\ \A c \in InputColumns(last.table)
                                       \ Elems(Keys(last.data)) : r[c] = o[c]
                           /\ r.time_inserted = o.time_inserted
                           /\ r.time_updated = txStart
             /\ \A o \in PreRows : ~KeyMatch(o) => o \in PostRows
        ELSE /\ Elems(last.q.update_cols) \cap TimeColumns = {}
             /\ Elems(last.q.insert_fields) \cap TimeColumns = {}
             /\ \A r \in PostRows : DOMAIN r \cap TimeColumns = {}

\* the update branch has run on a stamped table in a transaction begun
\* after the row was inserted
C9_Witness ==
    /\ last.op = "upsert"
    /\ last.err = "None"
    /\ last.table \in StampedTables
    /\ txStart > 0
    /\ \E o \in PreRows : KeyMatch(o) /\ o.time_inserted < txStart
    /\ \E r \in PostRows : r.time_inserted < r.time_updated

\* the rows of the batch have the ordered columns of the first row
SameShape(datas) == \A j \in DOMAIN datas : Keys(datas[j]) = Keys(datas[1])

\* the rows of the batch name the table's NOT NULL columns, their primary
\* keys differ from each other and from those of the rows present
NoCollision(table, datas, rows) ==
    /\ \A j \in DOMAIN datas :
          NotNull(table) \ TimeColumns \subseteq Elems(Keys(datas[j]))
    /\ \A i, j \in DOMAIN datas :
          (\A c \in PrimaryKey(table) : ValOf(datas[i], c) = ValOf(datas[j], c))
              => i = j
    /\ \A j \in DOMAIN datas : \A r \in rows :
          \E c \in PrimaryKey(table) : ValOf(datas[j], c) # r[c]

\* C10: _big_insert of N >= 1 rows with the same ordered columns, none
\* colliding with a primary key present or with each other, succeeds with
\* exactly one statement execution and adds exactly N rows, row i carrying
\* the values of row i (and both timestamps at NOW() on a stamped table);
\* the rows present stay.
C10_BigInsertAddsEveryRow ==
    (/\ last.op = "big_insert"
     /\ Len(last.datas) >= 1
     /\ SameShape(last.datas)
     /\ NoCollision(last.table, last.datas, PreRows)) =>
        /\ last.err = "None"
        /\ last.executes = 1
        /\ Cardinality(PostRows) = Cardinality(PreRows) + Len(last.datas)
        /\ PostRows = PreRows \cup {RowOf(last.table, last.datas[j], txStart) :
                                       j \in DOMAIN last.datas}

\* _big_insert has added two rows of two columns to a stamped table
C10_Witness ==
    /\ last.op = "big_insert"
    /\ last.table = "game"
    /\ Len(last.datas) = 2
    /\ Len(last.datas[1]) = 2
    /\ SameShape(last.datas)
    /\ last.err = "None"
    /\ Cardinality(PostRows) = 2
    /\ txStart > 0

\* C11: _big_insert given an empty batch, or a batch whose rows do not all
\* have the ordered columns of the first row, fails before any statement is
\* executed: the call raises, no execute has been made, and the transaction
\* and its rows are as they were.
C11_MisshapenBatchFailsBeforeStatement ==
    (/\ last.op = "big_insert"
     /\ (Len(last.datas) = 0 \/ ~SameShape(last.datas))) =>
        /\ last.err # "None"
        /\ last.executes = 0
        /\ working = last.pre.working
        /\ status = last.pre.status

----------------------------------------------------------------------------
(* Claims about connect and the committed schema, under SpecConnect *)

\* the tables and the types the migration functions 1 .. v create
TablesOf(v) ==
    (IF v >= 1 THEN Step1Tables ELSE {}) \cup (IF v >= 2 THEN Step2Tables ELSE {})

TypesOf(v) == IF v >= 2 THEN Step2Types ELSE {}

\* the database is as the migration functions up to its stored version
\* leave it
AsMigrated(db) ==
    /\ StoredVersion(db) \in 0..api_version
    /\ db.tables = TablesOf(StoredVersion(db))
    /\ db.types = TypesOf(StoredVersion(db))

\* C12: connect fails, with no migration function invoked and the database
\* unchanged, when the stored version is 0 and the database holds a table
\* and when the stored version is above api_version (by the assertion when
\* the time zone is accepted).  In every other case, when connect returns
\* the stored version is api_version and the functions invoked are those of
\* the versions stored+1 .. api_version in order; and it does return, given
\* a known time zone, on a database as the migration functions left it.
C12_ConnectChecksThenMigrates ==
    (last.op = "connect") =>
        LET db == last.pre.committed
            sv == StoredVersion(db)
        IN  IF (sv = 0 /\ db.tables # {}) \/ sv > api_version
            THEN /\ last.err # "None"
                 /\ last.tzok => last.err = "AssertionError"
                 /\ last.invoked = <<>>
                 /\ committed = db
            ELSE /\ last.err = "None" =>
                       /\ StoredVersion(committed) = api_version
                       /\ last.invoked = Ascending(sv, api_version)
                 /\ (last.tzok /\ AsMigrated(db)) => last.err = "None"

\* connect has refused a database without a version that holds a table
C12_Witness ==
    /\ last.op = "connect"
    /\ last.tzok
    /\ StoredVersion(last.pre.committed) = 0
    /\ last.pre.committed.tables # {}
    /\ exc = "AssertionError"
    /\ committed = last.pre.committed

----------------------------------------------------------------------------
(* Claims about a failing _migrate, under SpecMigrate *)

\* the iteration of _migrate for version last.v has raised
StepRaised ==
    /\ last.op = "migrate_step"
    /\ last.err # "None"
    /\ mig.startStatus = "IDLE"

\* C13: when, in a _migrate called on a connection that is not in a
\* transaction and started at version c, the iteration for version v raises
\* (the function fails, or no function is defined for v), the scope of that
\* iteration is rolled back, the error leaves _migrate, no later version is
\* tried, and the committed database is the one the iteration started on:
\* version v-1 stored, the tables and types of every earlier step present,
\* nothing of step v present, nothing pending.
C13_FailedStepLeavesPreviousVersion ==
    StepRaised =>
        /\ exc = last.err
        /\ mig.pc = "idle"
        /\ mig.result = "raised"
        /\ last.calls = <<"close", "rollback">>
        /\ mig.invoked = IF last.v \in MigrationFunctions
                         THEN Ascending(mig.before, last.v)
                         ELSE Ascending(mig.before, last.v - 1)
        /\ StoredVersion(committed) = last.v - 1
        /\ committed = last.pre.committed
        /\ last.pre.committed = last.pre.working
        /\ TablesOf(last.v - 1) \subseteq committed.tables
        /\ TypesOf(last.v - 1) \subseteq committed.types
        /\ working = committed
        /\ status = "IDLE"

\* _migrate to version 3, started on an empty database, has applied steps 1
\* and 2 and then found no function for version 3
C13_Witness ==
    /\ StepRaised
    /\ last.v = 3
    /\ mig.before = 0
    /\ exc = "AssertionError"
    /\ mig.invoked = <<1, 2>>
    /\ StoredVersion(committed) = 2

----------------------------------------------------------------------------
(* Claims about the stored version over sequences of calls, under          *)
(* SpecConnect                                                             *)

\* C14: no step of any sequence of connect and _migrate calls, returning or
\* raising, with any target, lowers the committed stored version.
C14_VersionNeverDecreases ==
    [][StoredVersion(committed') >= StoredVersion(committed)]_vars

\* a call of connect has raised the committed version of a database that
\* held version 1
C14_Witness ==
    /\ last.op = "connect"
    /\ last.err = "None"
    /\ StoredVersion(last.pre.committed) = 1
    /\ StoredVersion(committed) = api_version

----------------------------------------------------------------------------
(* Claims about a database created empty, under SpecFresh *)

\* C15: in every committed state of a database that was created empty and
\* changed through _migrate and connect only, the migration steps whose
\* effects are present are exactly 1 .. stored version: the tables and types
\* are those of the steps up to the stored version, no more and no less.
C15_StepsPresentAreUpToVersion == AsMigrated(committed)

\* _migrate has taken the database from version 1 to version 2
C15_Witness ==
    /\ last.op = "migrate_step"
    /\ last.v = 2
    /\ mig.before = 1
    /\ mig.result = "returned"
    /\ StoredVersion(committed) = 2
    /\ committed.tables = Step1Tables \cup Step2Tables

----------------------------------------------------------------------------
(* Claims about schema_version inside a caller's scope, under SpecMigrate *)

\* C16: schema_version called inside a scope whose transaction is open (a
\* statement has been executed in it) calls neither commit nor rollback,
\* whatever it finds (no meta table, no version row, a version), and leaves
\* the transaction open with its uncommitted work and the committed state
\* as they were.
C16_SchemaVersionLeavesTransaction ==
    (/\ last.op = "schema_version"
     /\ last.pre.status = "INTRANS"
     /\ Len(scopes) > 0) =>
        /\ Resolutions(last.calls) = 0
        /\ status = "INTRANS"
        /\ working = last.pre.working
        /\ committed = last.pre.committed

----------------------------------------------------------------------------
(* Claims about cursors and errors of Tx scopes, under Spec *)

\* in the calls of the last exit, the close comes before any commit or
\* rollback
ClosedFirst ==
    \A i, j \in DOMAIN last.calls :
        (last.calls[i] = "close" /\ last.calls[j] \in {"commit", "rollback"})
            => i < j

\* the entered scopes whose cursor is open
OpenScopes == {i \in DOMAIN scopes : scopes[i].cursor = "open"}

\* C17 as claimed: on every scope exit the cursor is closed before any
\* commit or rollback, and at all times the number of open cursors equals
\* the number of scopes entered and not yet exited.
C17_OpenCursorsEqualScopes ==
    /\ last.op = "exit" => (last.tx.cursor = "closed" /\ ClosedFirst)
    /\ cursors = Len(scopes)

\* C17 as amended: on every scope exit, body succeeded or raised, nested or
\* not, the scope's cursor is closed afterwards, closed by the exit (its
\* first call) unless the body had closed it, and before any commit or
\* rollback; at all times the open cursors are those of the entered scopes
\* whose body has not closed its cursor: never more than the entered scopes,
\* and none when no scope is entered.
C17_NoCursorOutlivesItsScope ==
    /\ last.op = "exit" =>
          /\ last.tx.cursor = "closed"
          /\ last.entered.cursor = "open" =>
                (Len(last.calls) >= 1 /\ last.calls[1] = "close")
          /\ ClosedFirst
    /\ cursors = Cardinality(OpenScopes)
    /\ cursors <= Len(scopes)
    /\ Len(scopes) = 0 => cursors = 0

\* a nested scope whose body raised has exited, closing its cursor, and the
\* enclosing scope's cursor is the one left open
C17_Witness ==
    /\ last.op = "exit"
    /\ last.tx.nested
    /\ last.typ # "None"
    /\ last.calls = <<"close">>
    /\ Len(scopes) = 1
    /\ cursors = 1

\* C18: when the body of a scope raises, the exit of the scope closes the
\* cursor and lets the same error out, for a nested scope and an outermost
\* one alike; a scope that is not nested has called rollback by then, so
\* the connection is idle, nothing is pending, and the committed state is
\* as it was.
C18_ErrorLeavesScope ==
    (last.op = "exit" /\ last.typ # "None") =>
        /\ exc = last.typ
        /\ last.tx.cursor = "closed"
        /\ ~last.tx.nested =>
              /\ \E i \in DOMAIN last.calls : last.calls[i] = "rollback"
              /\ status = "IDLE"
              /\ working = committed
              /\ committed = last.pre.committed

\* a scope that is not nested has been left by the error of a statement,
\* and the work done before it has been rolled back
C18_Witness ==
    /\ last.op = "exit"
    /\ ~last.tx.nested
    /\ last.typ = "IntegrityError"
    /\ exc = "IntegrityError"
    /\ last.pre.working # last.pre.committed
    /\ working = committed

\* C19: once a scope that is not nested has exited, by success or by error,
\* and once the outermost scope of a unit of work has exited, the connection
\* is not in a transaction and nothing is pending; the scope opened next,
\* the first of a unit of work, is then not nested; and the uncommitted
\* work of the connection is at all times work of the current unit only.
C19_OneUnitPending ==
    /\ (last.op = "exit" /\ (~last.tx.nested \/ last.depth = 1)) =>
          /\ status = "IDLE"
          /\ working = committed
    /\ Len(scopes) = 0 => (status = "IDLE" /\ working = committed)
    /\ Len(scopes) > 0 => ~scopes[1].nested
    /\ working.log \ committed.log \subseteq unit.stmts

\* a second unit of work has been opened with a scope that is not nested,
\* after the first one committed its statement
C19_Witness ==
    /\ last.op = "with"
    /\ Len(scopes) = 1
    /\ ~scopes[1].nested
    /\ committed.log # {}
    /\ status = "IDLE"
    /\ unit.stmts = {}

----------------------------------------------------------------------------
(* Claims about concurrent upserts, under SpecRace *)

\* the committed rows that satisfy the key of the two calls
RaceKeyRows == {r \in race.rows : Carries(r, race.pk)}

\* the body of connection c holds every key column with the key's value
RaceKeyInBody(c) ==
    \A i \in DOMAIN race.pk : \E j \in DOMAIN race.conn[c].data :
        race.conn[c].data[j] = race.pk[i]

\* both scopes have exited
RaceOver == \A c \in Conns : race.conn[c].pc \in {"committed", "rolledback"}

----------------------------------------------------------------------------
(* Claims about a call made again, under SpecTurns *)

\* the rows of the table of the first call, before it
FirstRows == hist[1].pre.working.rows[hist[1].call.table]

\* the rows without their time_updated
UpToUpdated(rows) ==
    {[c \in DOMAIN r \ {"time_updated"} |-> r[c]] : r \in rows}

\* the last step was the n-th of the same _upsert calls; PreRows are then
\* the rows the call before it left
UpsertTurn(n) ==
    /\ last.op = "upsert"
    /\ Len(hist) = n
    /\ \A i \in 1..n : hist[i].call = UpsertCall(last.table, last.data, last.pk)

\* the body names the NOT NULL columns of the table
BodyFillsRow ==
    NotNull(last.table) \ TimeColumns \subseteq Elems(Keys(last.data))

\* the first call has inserted the one row of the table, which carries the
\* body and the key, with both timestamps at NOW()
InsertedFirst ==
    /\ last.err = "None"
    /\ \E r \in PostRows :
          /\ PostRows = {r}
          /\ Carries(r, last.data)
          /\ KeyMatch(r)
          /\ r.time_inserted = txStart
          /\ r.time_updated = txStart

\* the call made again has matched the one row by the key and changed
\* nothing but its time_updated, now at NOW()
UpdatedAgain ==
    /\ last.err = "None"
    /\ \E o \in PreRows :
          /\ PreRows = {o}
          /\ KeyMatch(o)
          /\ Carries(o, last.data)
          /\ PostRows = {[o EXCEPT !.time_updated = txStart]}

\* the call made again has succeeded and left the rows the call before it
\* left, up to time_updated
SameAsOnce ==
    /\ last.err = "None"
    /\ UpToUpdated(PostRows) = UpToUpdated(PreRows)
    /\ \A r \in PreRows : ~KeyMatch(r) => r \in PostRows

Collides(table, datas, rows) ==
    /\ Len(datas) >= 1
    /\ SameShape(datas)
    /\ PrimaryKey(table) \subseteq Elems(Keys(datas[1]))
    /\ \E j \in DOMAIN datas :
          \/ \E r \in rows :
                \A c \in PrimaryKey(table) : ValOf(datas[j], c) = r[c]
          \/ \E i \in DOMAIN datas :
                /\ i # j
                /\ \A c \in PrimaryKey(table) :
                      ValOf(datas[i], c) = ValOf(datas[j], c)

\* the call h was a _big_insert of a batch that collides
Collided(h) ==
    /\ h.call.op = "big_insert"
    /\ Collides(h.call.table, h.call.datas, h.pre.working.rows[h.call.table])

\* the last call made, once a call has been made
LastCall == hist[Len(hist)]

\* C22: _big_insert of a batch (rows with the same ordered columns) of
\* which a row collides with a primary key present or with another row of
\* the batch executes its one statement, fails with the backend's
\* IntegrityError and adds no row; the error is in flight at the caller
\* then and after the exit of the top-level scope; and once that scope has
\* exited the connection is idle and the tables are as they were before the
\* scope, with no row of the batch added.
C22_CollisionFailsAndRollsBack ==
    /\ (/\ last.op = "big_insert"
        /\ Collides(last.table, last.datas, PreRows)) =>
           /\ last.err = "IntegrityError"
           /\ last.executes = 1
           /\ exc = "IntegrityError"
           /\ status = "INERROR"
           /\ PostRows = PreRows
    /\ (/\ Len(hist) >= 1
        /\ Len(scopes) = 0
        /\ Collided(LastCall)) =>
           /\ exc = "IntegrityError"
           /\ status = "IDLE"
           /\ working = committed
           /\ committed = LastCall.pre.committed

\* the top-level scope has exited on the error of a _big_insert of two
\* rows into a stamped table, one of them with the primary key of the row
\* present
C22_Witness ==
    /\ last.op = "exit"
    /\ last.typ = "IntegrityError"
    /\ Len(scopes) = 0
    /\ Len(hist) >= 1
    /\ Collided(LastCall)
    /\ LastCall.call.table = "game"
    /\ Len(LastCall.call.datas) = 2
    /\ \E r \in committed.rows["game"] :
          \E j \in DOMAIN LastCall.call.datas :
             ValOf(LastCall.call.datas[j], "gsis_id") = r["gsis_id"]

====
